---- MODULE Spec2Model ----
(***************************************************************************)
(* A model of the same-host, depth-bounded web crawler of                  *)
(* assignments/09_web_crawler_scraper/09_web_crawler_scraper.py.           *)
(*                                                                         *)
(* Strings are modelled as sequences of tokens (a token is a run of        *)
(* characters the code never looks inside of), so that lower(),            *)
(* startswith(), "in" and sorted() are computed and not assumed.           *)
(***************************************************************************)
EXTENDS Integers, Sequences, FiniteSets, TLC

VARIABLES
    pc,              \* main's position: start, running, done, exit2, crashed
    start_url,       \* args.start_url
    depth0,          \* args.depth
    approved_netloc, \* main's approved_netloc
    visited,         \* main's visited set
    seen_hashes,     \* main's seen_hashes set
    stack,           \* the activations of crawl, innermost last
    dirExists,       \* whether out_dir exists on disk
    files,           \* the files of out_dir: a set of [name, data]
    log,             \* history: fetch calls, requests on the wire, sleeps
    failed,          \* history: the URLs whose fetch raised
    extracted,       \* history: the pages extract_and_print has returned for
    summary,         \* the count of "[done] Visited N page(s)", -1 before
    last,            \* history: what the last step did
    calc,            \* a call of one of the pure functions: arguments, result
    helper,          \* the safe-uninstall helper script: its state
    setup            \* SetupFrame while pip installs: GUI thread, reader thread

vars == <<pc, start_url, depth0, approved_netloc, visited, seen_hashes, stack,
          dirExists, files, log, failed, extracted, summary, last, calc, helper,
                   setup>>

(***************************************************************************)
(* Bounds of the model.                                                    *)
(***************************************************************************)
MaxDepth == 2

(***************************************************************************)
(* Strings as token sequences.                                             *)
(***************************************************************************)

\* str.lower(), token by token
Lower(t) ==
    CASE t = "WWW." -> "www."
      [] t = "Example.EDU" -> "example.edu"
      [] t = "UTM_" -> "utm_"
      [] t = "NoFollow" -> "nofollow"
      [] t = "DISPLAY:NONE" -> "display:none"
      [] t = "Text/HTML" -> "text/html"
      [] t = "IMAGE/" -> "image/"
      [] OTHER -> t

LowerSeq(s) == [i \in 1..Len(s) |-> Lower(s[i])]

\* The tokens of the model in the order of their first differing characters,
\* as Python compares str values (by code point).
Alphabet ==
    <<"#", "%20", "%26", "%75tm_", "&", "+", "/", ":8080", "://", "=", "?",
      "1", "Example.EDU", "UTM_", "WWW.",
      "a", "b", "b.png", "c", "cdn.evil.com", "d", "e", "evil.com", "example.edu",
      "ftp", "gclid", "http", "https", "id", "img", "landing", "logo.png",
      "n", "old", "pic.png", "r", "ref", "s", "sec", "secret", "sessionid", "source",
      "t", "t.png", "top", "u", "user@", "utm_", "www.", "x">>

TokRank(t) == CHOOSE i \in 1..Len(Alphabet) : Alphabet[i] = t

\* s < t for two token sequences, as Python's str.__lt__
RECURSIVE StrLess(_, _)
StrLess(s, t) ==
    IF s = <<>> THEN t # <<>>
    ELSE IF t = <<>> THEN FALSE
    ELSE IF Head(s) = Head(t) THEN StrLess(Tail(s), Tail(t))
    ELSE TokRank(Head(s)) < TokRank(Head(t))

(***************************************************************************)
(* URLs: what urlparse() returns.  netloc and each key of the query are    *)
(* token sequences; path is the sequence of its segments ("/" is the one    *)
(* empty segment, the empty path has none); a blank query value is "".     *)
(***************************************************************************)
URL(scheme, netloc, path, query, frag) ==
    [scheme |-> scheme, netloc |-> netloc, path |-> path, query |-> query,
     frag |-> frag]

RECURSIVE Flatten(_)
Flatten(ss) == IF ss = <<>> THEN <<>> ELSE Head(ss) \o Flatten(Tail(ss))

\* urlunparse(): the URL as a string
UrlStr(u) ==
    (IF u.scheme = "" THEN <<>> ELSE <<u.scheme, "://">>)
    \o u.netloc
    \o Flatten([i \in 1..Len(u.path) |->
            IF u.path[i] = "" THEN <<"/">> ELSE <<"/", u.path[i]>>])
    \o (IF u.query = <<>> THEN <<>>
        ELSE <<"?">> \o Flatten([i \in 1..Len(u.query) |->
                 (IF i > 1 THEN <<"&">> ELSE <<>>)
                 \o u.query[i][1] \o <<"=">> \o <<u.query[i][2]>>]))
    \o (IF u.frag = "" THEN <<>> ELSE <<"#", u.frag>>)

UrlLess(u, v) == StrLess(UrlStr(u), UrlStr(v))

\* sorted(S) for a set of URLs
RECURSIVE sorted(_)
sorted(S) ==
    IF S = {} THEN <<>>
    ELSE LET m == CHOOSE x \in S : \A y \in S \ {x} : UrlLess(x, y)
         IN  <<m>> \o sorted(S \ {m})

(***************************************************************************)
(* URL Canonicalizer                                                       *)
(***************************************************************************)
URL_PROTOCOLS == {"http", "https"}

TRACKING_PREFIXES == {"utm_", "gclid", "fbclid", "sessionid", "jsessionid"}

\* a variant that compares the key without k.lower()
IsTrackingKey_CaseSensitive(k) == k # <<>> /\ k[1] \in TRACKING_PREFIXES

\* any(k.lower().startswith(pref) for pref in TRACKING_PREFIXES)
IsTrackingKey(k) == k # <<>> /\ Lower(k[1]) \in TRACKING_PREFIXES

\* unquote() with "+" for a space, as parse_qsl decodes a key or a value
unquote(t) ==
    CASE t = "%20" -> " "
      [] t = "+" -> " "
      [] t = "%26" -> "&"
      [] t = "%75tm_" -> "utm_"
      [] OTHER -> t

\* quote_plus(), as urlencode encodes a decoded key or value
quote_plus(t) ==
    CASE t = " " -> "+"
      [] t = "&" -> "%26"
      [] OTHER -> t

\* The query of a URL is the sequence of its "key=value" pieces as written.
\* parse_qsl(query, keep_blank_values=False): the pieces with a value, decoded
has_value(kv) == kv[2] # ""

parse_qsl(query) ==
    LET q == SelectSeq(query, has_value)
    IN  [i \in 1..Len(q) |->
            <<[j \in 1..Len(q[i][1]) |-> unquote(q[i][1][j])], unquote(q[i][2])>>]

\* urlencode(q, doseq=True)
urlencode(q) ==
    [i \in 1..Len(q) |->
        <<[j \in 1..Len(q[i][1]) |-> quote_plus(q[i][1][j])], quote_plus(q[i][2])>>]

\* the filter of strip_tracking on the decoded pairs
keep_param(kv) == ~IsTrackingKey(kv[1])

\* a variant that filters the keys as written, before they are decoded
strip_tracking_FilterRaw(u) ==
    [u EXCEPT !.query = urlencode(parse_qsl(SelectSeq(u.query, keep_param)))]

strip_tracking(u) ==
    [u EXCEPT !.query = urlencode(SelectSeq(parse_qsl(u.query), keep_param))]

\* A reference found in markup: an absolute URL, a reference relative to the
\* root of the page's site, or text that urlsplit() rejects with ValueError
\* (such as "http://[").
AbsRef(u) == [k |-> "abs", u |-> u]
RelRef(path, query, frag) ==
    [k |-> "rel", u |-> URL("", <<>>, path, query, frag)]
BadRef == [k |-> "bad", u |-> URL("", <<>>, <<>>, <<>>, "")]

\* urljoin(current_url, link) raises ValueError
urljoin_raises(link) == link.k = "bad"

urljoin(current_url, link) ==
    IF link.k = "abs" THEN link.u
    ELSE [link.u EXCEPT !.scheme = current_url.scheme,
                        !.netloc = current_url.netloc]

urldefrag(u) == [u EXCEPT !.frag = ""]

url_cleanup(current_url, link) ==
    strip_tracking(urldefrag(urljoin(current_url, link)))

(***************************************************************************)
(* Host Guard                                                              *)
(***************************************************************************)
strip_www(site) ==
    IF site # <<>> /\ Head(site) = "www." THEN Tail(site) ELSE site

stay_on_site(url, approved) ==
    IF url.scheme \notin URL_PROTOCOLS THEN FALSE
    ELSE strip_www(LowerSeq(url.netloc)) = strip_www(LowerSeq(approved))

(***************************************************************************)
(* Trap links.  An anchor is [href, rel, style, aria]: rel is the list of  *)
(* its rel values, style the declarations of its style attribute.          *)
(***************************************************************************)
Anchor(href, rel, style, aria) ==
    [href |-> href, rel |-> rel, style |-> style, aria |-> aria]

InSeq(x, s) == \E i \in 1..Len(s) : s[i] = x

is_trap_link(a) ==
    IF InSeq("nofollow", LowerSeq(a.rel)) THEN TRUE
    ELSE IF InSeq("display:none", LowerSeq(a.style))
            \/ InSeq("visibility:hidden", LowerSeq(a.style)) THEN TRUE
    ELSE IF a.aria = "true" THEN TRUE
    ELSE FALSE

(***************************************************************************)
(* Image file names                                                        *)
(***************************************************************************)
\* os.path.splitext(name)[1] is not empty
HasExtension(name) == name \in {"logo.png", "b.png", "t.png", "pic.png"}

\* ".jpg" in pr.path.lower(), ".png" in pr.path.lower()
PathContains(path, ext) ==
    \E i \in 1..Len(path) :
        \/ ext = ".png" /\ Lower(path[i]) \in {"logo.png", "b.png", "t.png", "pic.png"}
        \/ ext = ".jpg" /\ Lower(path[i]) \in {"photo.jpg"}

\* a variant that puts the hash of the URL in every name
safe_image_filename_Hashed(img_url) ==
    <<"image", "-">> \o UrlStr(img_url) \o <<".jpg">>

\* The file name as a token sequence; the ten hex digits of the URL's sha256
\* are modelled by the URL itself.
safe_image_filename(img_url) ==
    LET base == IF img_url.path = <<>> THEN ""
                ELSE img_url.path[Len(img_url.path)]
        name == IF base = "" THEN "image" ELSE base
        ext  == IF PathContains(img_url.path, ".jpg") THEN ".jpg"
                ELSE IF PathContains(img_url.path, ".png") THEN ".png"
                ELSE ""
    IN  IF HasExtension(name) THEN <<name>>
        ELSE IF ext = "" THEN <<name, "-">> \o UrlStr(img_url) \o <<".jpg">>
        ELSE <<name, ext>>

(***************************************************************************)
(* The web the crawler runs against.  A page is its visible text (the      *)
(* first 10000 characters and the rest), its anchors and the src of its    *)
(* images.                                                                 *)
(***************************************************************************)
Page(head, rest, anchors, imgs) ==
    [text |-> [head |-> head, rest |-> rest], anchors |-> anchors, imgs |-> imgs]

Plain(href) == Anchor(href, <<>>, <<>>, "")

Root == <<"">>

EvilHost == <<"evil.com">>

PageAt(path) ==
    CASE path = Root ->
           Page("home", "1",
                {Plain(RelRef(<<"a">>, <<>>, "")),
                 Plain(RelRef(<<"b">>, <<>>, "")),
                 Plain(RelRef(<<"r">>, <<>>, "")),
                 Plain(AbsRef(URL("https", EvilHost, <<"x">>, <<>>, "")))},
                {RelRef(<<"img", "logo.png">>, <<>>, ""),
                 AbsRef(URL("https", <<"cdn.evil.com">>, <<"pic.png">>, <<>>, ""))})
      [] path = <<"a">> ->
           Page("a", "",
                {Plain(RelRef(Root, <<>>, "")),
                 Plain(RelRef(<<"b">>, <<>>, "sec")),
                 Plain(RelRef(<<"c">>, << <<<<"utm_", "source">>, "x">> >>, "")),
                 Anchor(RelRef(<<"t">>, <<>>, ""), <<"NoFollow">>, <<>>, "")},
                {})
      [] path = <<"b">> ->
           Page("home", "b", {Plain(RelRef(<<"d">>, <<>>, ""))},
                {RelRef(<<"img", "b.png">>, <<>>, "")})
      [] path = <<"c">> ->
           Page("c", "", {Plain(BadRef), Plain(RelRef(<<"e">>, <<>>, ""))}, {})
      [] path = <<"d">> ->
           Page("d", "",
                {Plain(RelRef(<<"e">>, <<>>, "")),
                 Plain(RelRef(<<"t">>, <<>>, ""))},
                {})
      [] path = <<"e">> ->
           Page("e", "", {Plain(RelRef(<<"s">>, <<>>, ""))}, {})
      [] path = <<"s">> ->
           Page("s", "",
                {Plain(RelRef(<<"d">>, <<>>, "")),
                 Plain(RelRef(<<"t">>, <<>>, "")),
                 Plain(AbsRef(URL("https", EvilHost, <<"x">>, <<>>, "")))},
                {})
      [] path = <<"t">> ->
           Page("t", "", {Plain(RelRef(<<"u">>, <<>>, ""))},
                {RelRef(<<"img", "logo.png">>, <<>>, ""),
                 RelRef(<<"img", "t.png">>, <<>>, ""),
                 RelRef(<<"old", "logo.png">>, <<>>, "")})
      [] OTHER -> Page("leaf", "", {}, {})

\* The page of another site, served after a redirect that leaves the host
EvilPage ==
    Page("evil", "", {Plain(RelRef(<<"secret">>, <<>>, ""))},
         {RelRef(<<"img", "pic.png">>, <<>>, "")})

\* What requests.get() does with a URL: it raises (timeout, connection
\* failure), or returns the response of the last hop of the redirects it
\* followed: the status, the Content-Type, and for a page its content.
Raised == [kind |-> "exc"]

Response(status, ctype, hops, page) ==
    [kind |-> "resp", status |-> status, ctype |-> ctype, hops |-> hops,
     page |-> page]

HTML == <<"text/html">>

PageResponses(url) ==
    {Raised,
     Response(404, HTML, <<>>, Page("not found", "", {}, {})),
     Response(200, <<"application/json">>, <<>>, Page("{}", "", {}, {}))}
    \cup
    (IF url.path = <<"r">>
     THEN {Response(200, HTML, <<URL("https", EvilHost, <<"landing">>, <<>>, "")>>,
                    EvilPage)}
     ELSE IF url.path = <<"b">>
     THEN {Response(200, <<"Text/HTML">>, <<>>, PageAt(url.path))}
     ELSE IF url.path = <<"d">>
     THEN {Response(200, HTML, <<>>, PageAt(url.path)),
           Response(300, HTML, <<>>, Page("choices", "", {}, {}))}
     ELSE {Response(200, HTML, <<>>, PageAt(url.path))})

ImageResponses(url) ==
    {Raised,
     Response(404, HTML, <<>>, {}),
     Response(200, HTML, <<>>, {})}
    \cup
    (IF url.path = <<"img", "t.png">>
     THEN {Response(200, <<"image/", "png">>,
                    <<URL("https", <<"cdn.evil.com">>, <<"t.png">>, <<>>, "")>>, {})}
     ELSE {Response(200, <<"IMAGE/", "png">>, <<>>, {})})

\* What the file system does to download_image: nothing, or mkdir raises, or
\* open raises, or a write raises after open has created the file.
FsOutcomes == {"ok", "mkdir_error", "open_error", "write_error"}

\* a variant that never raises
raise_for_status_Never(r) == FALSE

\* response.raise_for_status() raises
raise_for_status(r) == r.status >= 400 /\ r.status < 600

(***************************************************************************)
(* Page Fetcher                                                            *)
(***************************************************************************)
\* fetch(url) raises, given what requests.get() did
fetch_raises(r) ==
    IF r.kind = "exc" THEN TRUE
    ELSE IF raise_for_status(r) THEN TRUE
    ELSE ~(InSeq("text/html", LowerSeq(r.ctype))
           \/ InSeq("application/xhtml+xml", LowerSeq(r.ctype)))

\* hashlib.sha256(text[:10000]): the digest is modelled by the hashed text
content_hash(text) == text.head

(***************************************************************************)
(* Link/Image Extractor                                                    *)
(***************************************************************************)
\* extract_and_print raises: url_cleanup does, on some href or src
extract_raises(page) ==
    \/ \E a \in page.anchors : urljoin_raises(a.href)
    \/ \E i \in page.imgs : urljoin_raises(i)

extract_links(page_url, page) ==
    {url_cleanup(page_url, a.href) : a \in page.anchors}

extract_images(page_url, page) ==
    {url_cleanup(page_url, i) : i \in page.imgs}

(***************************************************************************)
(* Image Downloader.  r is what requests.get() does and fs what the file   *)
(* system does; the result is the outcome, the directory and files after   *)
(* the call, and the URLs requested on the wire.                           *)
(***************************************************************************)
\* dest.exists()
dest_exists_Never(name, fls) == FALSE

dest_exists(name, fls) == \E f \in fls : f.name = name

Downloaded(outcome, dir, fls, wire) ==
    [outcome |-> outcome, dir |-> dir, files |-> fls, wire |-> wire]

download_image_Guarded(img_url, approved, r, fs, dir, fls, on_site) ==
    IF ~on_site
    THEN Downloaded("skipped_external", dir, fls, <<>>)
    ELSE IF r.kind = "exc" THEN Downloaded("error", dir, fls, <<img_url>>)
    ELSE LET wire == <<img_url>> \o r.hops
             name == safe_image_filename(img_url)
         IN  IF raise_for_status(r) THEN Downloaded("error", dir, fls, wire)
             ELSE IF r.ctype = <<>> \/ Lower(r.ctype[1]) # "image/"
             THEN Downloaded("skipped_not_image", dir, fls, wire)
             ELSE IF ~dir /\ fs = "mkdir_error"
             THEN Downloaded("error", dir, fls, wire)
             ELSE IF dest_exists(name, fls)
             THEN Downloaded("skipped_exists", TRUE, fls, wire)
             ELSE IF fs = "open_error" THEN Downloaded("error", TRUE, fls, wire)
             ELSE IF fs = "write_error"
             THEN Downloaded("error", TRUE,
                             fls \cup {[name |-> name, data |-> <<img_url, "partial">>]},
                             wire)
             ELSE Downloaded("saved", TRUE,
                             fls \cup {[name |-> name, data |-> <<img_url, "whole">>]},
                             wire)

download_image_NoGuard(img_url, approved, r, fs, dir, fls) ==
    download_image_Guarded(img_url, approved, r, fs, dir, fls, TRUE)

download_image(img_url, approved, r, fs, dir, fls) ==
    download_image_Guarded(img_url, approved, r, fs, dir, fls,
                           stay_on_site(img_url, approved))

(***************************************************************************)
(* Crawl Orchestrator                                                      *)
(***************************************************************************)
NoPage == Page("", "", {}, {})

Frame(url, depth) ==
    [url |-> url, depth |-> depth, pc |-> "entry", soup |-> NoPage,
     links |-> <<>>, images |-> <<>>, idx |-> 1]

Top == stack[Len(stack)]

Pop == SubSeq(stack, 1, Len(stack) - 1)

SetTop(f) == [stack EXCEPT ![Len(stack)] = f]

\* "if depth < 0: return"
depth_exhausted_Never(depth) == FALSE

depth_exhausted(depth) == depth < 0

\* "url in visited" at the entry of crawl
already_visited_Never(url, vis) == FALSE

already_visited(url, vis) == url \in vis

\* "content_hash in seen_hashes"
duplicate_content_Never(h, seen) == FALSE

duplicate_content(h, seen) == h \in seen

\* "seen_hashes.add(content_hash)"
seen_hashes_add_Replace(seen, h) == {h}

seen_hashes_add(seen, h) == seen \cup {h}

\* main rejects the start URL
invalid_start_SchemeOnly(u) == u.scheme = ""

invalid_start(u) == u.scheme \notin URL_PROTOCOLS \/ u.netloc = <<>>

\* The frame after download_image has returned: crawl ignores what it
\* returned and goes on with the next image, or with the links after the last
after_download_StopOnError(f, outcome) ==
    IF f.idx = Len(f.images) \/ outcome = "error"
    THEN [f EXCEPT !.pc = "links", !.idx = 1]
    ELSE [f EXCEPT !.idx = f.idx + 1]

after_download(f, outcome) ==
    IF f.idx = Len(f.images)
    THEN [f EXCEPT !.pc = "links", !.idx = 1]
    ELSE [f EXCEPT !.idx = f.idx + 1]

\* "if idx > 0: time.sleep(random.uniform(0.5, 2.0))", idx counted from 1 here
pause_before_Always(idx) == TRUE

pause_before(idx) == idx > 1

\* an entry of the log
Event(ev, url) == [ev |-> ev, url |-> url]

\* "time.sleep(SLEEP_BETWEEN_PAGES)" before the recursive call
page_delay_None(link) == <<>>

page_delay(link) == <<Event("sleep_page", link)>>

\* "if stay_on_site(link, approved_netloc)" in the loop over the links
follow_link_Always(link, approved) == TRUE

follow_link(link, approved) == stay_on_site(link, approved)

\* The depth crawl hands to its recursive call
child_depth_Same(depth) == depth

child_depth(depth) == depth - 1


NoResponse == [kind |-> "none"]

Did(op, url, res) == [op |-> op, url |-> url, res |-> res, r |-> NoResponse]

DidDownload(url, res, r) ==
    [op |-> "download", url |-> url, res |-> res,
     r |-> IF res = "skipped_external" THEN NoResponse ELSE r]

DidFetch(url, res, r) == [op |-> "fetch", url |-> url, res |-> res, r |-> r]

Events(ev, urls) == [i \in 1..Len(urls) |-> Event(ev, urls[i])]

StartUrls ==
    {URL("https", <<"www.", "example.edu">>, Root, <<>>, ""),
     URL("http", <<"Example.EDU">>, Root, <<>>, "top"),
     URL("https", <<"example.edu">>, <<"s">>, <<>>, ""),
     URL("ftp", <<"example.edu">>, Root, <<>>, ""),
     URL("https", <<>>, <<"a">>, <<>>, ""),
     URL("", <<>>, <<"example.edu">>, <<>>, "")}

\* No pure function is being called
NoCalc == [fn |-> "none"]

\* The uninstall helper has not been written
NoHelper == [pc |-> "none"]

\* The setup frame is not shown
NoSetup == [gui |-> "none"]

OldFile == [name |-> <<"logo.png">>, data |-> <<"old">>]

Init ==
    /\ pc = "start"
    /\ start_url \in StartUrls
    /\ depth0 \in -1..MaxDepth
    /\ approved_netloc = <<>>
    /\ visited = {}
    /\ seen_hashes = {}
    /\ stack = <<>>
    /\ dirExists \in BOOLEAN
    /\ files \in (IF dirExists THEN {{}, {OldFile}} ELSE {{}})
    /\ log = <<>>
    /\ failed = {}
    /\ extracted = {}
    /\ summary = -1
    /\ last = Did("init", start_url, "")
    /\ calc = NoCalc
    /\ helper = NoHelper
    /\ setup = NoSetup

\* main, up to its call of crawl
Main ==
    /\ pc = "start"
    /\ IF invalid_start(start_url)
       THEN /\ pc' = "exit2"
            /\ last' = Did("main", start_url, "invalid")
            /\ UNCHANGED <<approved_netloc, stack>>
       ELSE /\ pc' = "running"
            /\ approved_netloc' = start_url.netloc
            /\ stack' = <<Frame(start_url, depth0)>>
            /\ last' = Did("main", start_url, "crawl")
    /\ UNCHANGED <<start_url, depth0, visited, seen_hashes, dirExists, files,
                   log, failed, extracted, summary, calc, helper,
                   setup>>

\* crawl, from its entry to the scope check
CrawlEntry ==
    /\ pc = "running" /\ stack # <<>> /\ Top.pc = "entry"
    /\ IF depth_exhausted(Top.depth)
       THEN /\ stack' = Pop
            /\ last' = Did("entry", Top.url, "depth")
            /\ UNCHANGED visited
       ELSE IF already_visited(Top.url, visited)
       THEN /\ stack' = Pop
            /\ last' = Did("entry", Top.url, "visited")
            /\ UNCHANGED visited
       ELSE /\ visited' = visited \cup {Top.url}
            /\ IF ~stay_on_site(Top.url, approved_netloc)
               THEN /\ stack' = Pop
                    /\ last' = Did("entry", Top.url, "external")
               ELSE /\ stack' = SetTop([Top EXCEPT !.pc = "fetch"])
                    /\ last' = Did("entry", Top.url, "fetch")
    /\ UNCHANGED <<pc, start_url, depth0, approved_netloc, seen_hashes,
                   dirExists, files, log, failed, extracted, summary, calc, helper,
                   setup>>

\* crawl, from the fetch to the end of extract_and_print
FetchPage ==
    /\ pc = "running" /\ stack # <<>> /\ Top.pc = "fetch"
    /\ \E r \in PageResponses(Top.url) :
        /\ log' = log \o <<Event("fetch", Top.url)>>
                      \o (IF r.kind = "exc" THEN <<>> ELSE Events("redirect", r.hops))
        /\ IF fetch_raises(r)
           THEN /\ stack' = Pop
                /\ last' = DidFetch(Top.url, "error", r)
                /\ failed' = failed \cup {Top.url}
                /\ UNCHANGED <<pc, seen_hashes, extracted>>
           ELSE IF duplicate_content(content_hash(r.page.text), seen_hashes)
           THEN /\ stack' = Pop
                /\ last' = DidFetch(Top.url, "duplicate", r)
                /\ UNCHANGED <<pc, seen_hashes, failed, extracted>>
           ELSE /\ seen_hashes' = seen_hashes_add(seen_hashes, content_hash(r.page.text))
                /\ UNCHANGED failed
                /\ IF extract_raises(r.page)
                   THEN /\ pc' = "crashed"
                        /\ stack' = <<>>
                        /\ UNCHANGED extracted
                        /\ last' = DidFetch(Top.url, "raised", r)
                   ELSE /\ pc' = pc
                        /\ extracted' = extracted \cup
                             {[url |-> Top.url, depth |-> Top.depth,
                               links |-> extract_links(Top.url, r.page),
                               images |-> extract_images(Top.url, r.page)]}
                        /\ stack' = SetTop(
                             [Top EXCEPT
                                !.soup = r.page,
                                !.links = sorted(extract_links(Top.url, r.page)),
                                !.images = sorted(extract_images(Top.url, r.page)),
                                !.idx = 1,
                                !.pc = IF extract_images(Top.url, r.page) = {}
                                       THEN "links" ELSE "images"])
                        /\ last' = DidFetch(Top.url, "extracted", r)
    /\ UNCHANGED <<start_url, depth0, approved_netloc, visited, dirExists, files,
                   summary, calc, helper,
                   setup>>

\* crawl: one round of the loop over the images
DownloadNext ==
    /\ pc = "running" /\ stack # <<>> /\ Top.pc = "images"
    /\ \E r \in ImageResponses(Top.images[Top.idx]), fs \in FsOutcomes :
        LET img == Top.images[Top.idx]
            d   == download_image(img, approved_netloc, r, fs, dirExists, files)
        IN  /\ log' = log \o (IF pause_before(Top.idx) THEN <<Event("sleep_jitter", img)>>
                              ELSE <<>>)
                          \o (IF d.wire = <<>> THEN <<>>
                              ELSE <<Event("download", Head(d.wire))>>
                                   \o Events("redirect", Tail(d.wire)))
            /\ dirExists' = d.dir
            /\ files' = d.files
            /\ last' = DidDownload(img, d.outcome, r)
            /\ stack' = SetTop(after_download(Top, d.outcome))
    /\ UNCHANGED <<pc, start_url, depth0, approved_netloc, visited, seen_hashes,
                   failed, extracted, summary, calc, helper,
                   setup>>

\* crawl: one round of the loop over the links
LinkNext ==
    /\ pc = "running" /\ stack # <<>> /\ Top.pc = "links"
    /\ Top.depth > 0 /\ Top.idx <= Len(Top.links)
    /\ LET link == Top.links[Top.idx]
       IN  IF follow_link(link, approved_netloc)
           THEN /\ log' = log \o page_delay(link)
                /\ stack' = Append(SetTop([Top EXCEPT !.idx = Top.idx + 1]),
                                   Frame(link, child_depth(Top.depth)))
                /\ last' = Did("link", link, "crawl")
           ELSE /\ stack' = SetTop([Top EXCEPT !.idx = Top.idx + 1])
                /\ last' = Did("link", link, "skip_external")
                /\ UNCHANGED log
    /\ UNCHANGED <<pc, start_url, depth0, approved_netloc, visited, seen_hashes,
                   dirExists, files, failed, extracted, summary, calc, helper,
                   setup>>

\* crawl returns after its last link (or with depth 0)
CrawlReturn ==
    /\ pc = "running" /\ stack # <<>> /\ Top.pc = "links"
    /\ ~(Top.depth > 0 /\ Top.idx <= Len(Top.links))
    /\ stack' = Pop
    /\ last' = Did("return", Top.url, "")
    /\ UNCHANGED <<pc, start_url, depth0, approved_netloc, visited, seen_hashes,
                   dirExists, files, log, failed, extracted, summary, calc, helper,
                   setup>>

\* main, after crawl has returned
MainDone ==
    /\ pc = "running" /\ stack = <<>>
    /\ pc' = "done"
    /\ summary' = Cardinality(visited)
    /\ last' = Did("done", start_url, "")
    /\ UNCHANGED <<start_url, depth0, approved_netloc, visited, seen_hashes,
                   stack, dirExists, files, log, failed, extracted, calc, helper,
                   setup>>

Next ==
    \/ Main
    \/ CrawlEntry
    \/ FetchPage
    \/ DownloadNext
    \/ LinkNext
    \/ CrawlReturn
    \/ MainDone

Spec == Init /\ [][Next]_vars

\* The interpreter runs the one thread to its end
FairSpec == Spec /\ WF_vars(Next)

(***************************************************************************)
(* The pure functions, called on their own.  The arguments are drawn from  *)
(* bounded sets; a step calls the function and records its result.         *)
(***************************************************************************)
MaxParams == 3

SeqsUpTo(S, n) == UNION {[1..k -> S] : k \in 0..n}

\* netlocs as urlparse returns them: [userinfo@]host[:port]
CalcHosts ==
    {www \o <<h>> \o port :
        www \in {<<>>, <<"www.">>, <<"WWW.">>, <<"www.", "www.">>},
        h \in {"example.edu", "Example.EDU", "evil.com"},
        port \in {<<>>, <<":8080">>}}

CalcNetlocs == {user \o h : user \in {<<>>, <<"user@">>}, h \in CalcHosts}

\* the "key=value" pieces of a query, as written in a link
CalcParams ==
    { <<<<"id">>, "1">>, <<<<"ref">>, "">>,
      <<<<"s">>, "%26">>, <<<<"s">>, "%20">>,
      <<<<"utm_", "source">>, "x">>, <<<<"UTM_", "source">>, "+">>,
      <<<<"%75tm_", "source">>, "x">>, <<<<"gclid">>, "1">> }

CalcLinks ==
    LET qs == SeqsUpTo(CalcParams, MaxParams)
    IN  {RelRef(<<"a">>, q, f) : q \in qs, f \in {"", "top"}}
        \cup {AbsRef(URL("https", <<"WWW.", "example.edu">>, <<"">>, q, f)) :
                    q \in qs, f \in {"", "top"}}

CalcBase == URL("https", <<"example.edu">>, <<"">>, <<>>, "")

CalcArgs ==
    [fn : {"args"}, of : {"stay_on_site"},
     url : {URL(sch, n, <<"">>, <<>>, "") :
                sch \in {"http", "https", "ftp"}, n \in CalcNetlocs},
     approved : CalcHosts]
    \cup [fn : {"args"}, of : {"url_cleanup"}, current_url : {CalcBase},
          link : CalcLinks]

\* the crawler is not run
NoCrawl ==
    /\ pc = "none"
    /\ start_url = CalcBase
    /\ depth0 = 0
    /\ approved_netloc = CalcBase.netloc
    /\ visited = {}
    /\ seen_hashes = {}
    /\ stack = <<>>
    /\ dirExists = FALSE
    /\ files = {}
    /\ log = <<>>
    /\ failed = {}
    /\ extracted = {}
    /\ summary = -1
    /\ last = Did("init", start_url, "")

PureInit ==
    /\ calc \in CalcArgs
    /\ helper = NoHelper
    /\ setup = NoSetup
    /\ NoCrawl

PureFrame ==
    UNCHANGED <<pc, start_url, depth0, approved_netloc, visited, seen_hashes,
                stack, dirExists, files, log, failed, extracted, summary, last, helper,
                setup>>

Call_stay_on_site ==
    /\ calc.fn = "args" /\ calc.of = "stay_on_site"
    /\ calc' = [fn |-> "stay_on_site", url |-> calc.url,
                approved |-> calc.approved,
                out |-> stay_on_site(calc.url, calc.approved)]
    /\ PureFrame

Call_url_cleanup ==
    /\ calc.fn = "args" /\ calc.of = "url_cleanup"
    /\ calc' = [fn |-> "url_cleanup", current_url |-> calc.current_url,
                link |-> calc.link,
                out |-> url_cleanup(calc.current_url, calc.link)]
    /\ PureFrame

\* the result of url_cleanup, given to url_cleanup as the link
Call_url_cleanup_again ==
    /\ calc.fn = "url_cleanup"
    /\ calc' = [fn |-> "url_cleanup_again", current_url |-> calc.current_url,
                link |-> calc.link, out |-> calc.out,
                again |-> url_cleanup(calc.current_url, AbsRef(calc.out))]
    /\ PureFrame

PureNext ==
    \/ Call_stay_on_site
    \/ Call_url_cleanup
    \/ Call_url_cleanup_again

PureSpec == PureInit /\ [][PureNext]_vars

(***************************************************************************)
(* The safe-uninstall helper: the script _create_uninstall_script writes.  *)
(* The target folder is described by what safe_path looks at; the trash    *)
(* methods and the file system answer as they choose.                      *)
(***************************************************************************)
MaxCollisions == 50

Targets ==
    {t \in [exists : BOOLEAN, is_dir : BOOLEAN, is_root : BOOLEAN,
            is_home : BOOLEAN, length : {1, 7, 8}, main_py : BOOLEAN,
            readme : BOOLEAN] :
        /\ t.is_dir => t.exists
        /\ (t.main_py \/ t.readme) => t.is_dir
        /\ t.is_root <=> t.length = 1
        /\ t.is_root => (t.is_dir /\ ~t.is_home)
        /\ t.is_home => t.is_dir}

safe_path(p) ==
    /\ p.exists /\ p.is_dir
    /\ ~(p.is_root \/ p.is_home \/ p.length < 8)
    /\ p.main_py /\ p.readme

Platforms == {"darwin", "nt", "linux"}

\* the trash method of the platform, tried after send2trash
platform_trash(platform) ==
    CASE platform = "darwin" -> "macos_trash"
      [] platform = "nt" -> "windows_trash"
      [] OTHER -> "linux_trash"

\* what the name safe_rename looks at is: nothing, an empty directory, or a
\* file or a directory with entries
Siblings == {"absent", "empty_dir", "occupied"}

\* path.rename(new) raises, given what new is and whether the OS refuses
rename_raises(platform, new, refused) ==
    CASE new = "absent" -> refused
      [] new = "occupied" -> TRUE
      [] OTHER -> platform = "nt" \/ refused

UninstallInit ==
    /\ helper \in [pc : {"start"}, platform : Platforms, target : Targets,
                    moved : {FALSE}, tried : {{}}, renaming : {FALSE},
                    where : {"in_place"}, i : {0}, new : {"absent"},
                    new_existed : {FALSE}, code : {-1}]
    /\ calc = NoCalc
    /\ setup = NoSetup
    /\ NoCrawl

UninstallFrame ==
    UNCHANGED <<pc, start_url, depth0, approved_netloc, visited, seen_hashes,
                stack, dirExists, files, log, failed, extracted, summary, last,
                calc, setup>>

\* if not safe_path(TARGET): sys.exit(1)
CheckSafePath ==
    /\ helper.pc = "start"
    /\ helper' = IF safe_path(helper.target)
                  THEN [helper EXCEPT !.pc = "confirm"]
                  ELSE [helper EXCEPT !.pc = "exit", !.code = 1]
    /\ UninstallFrame

\* the folder name typed to confirm
Confirm ==
    /\ helper.pc = "confirm"
    /\ \E matches \in BOOLEAN :
        helper' = IF matches
                  THEN [helper EXCEPT !.pc = "send2trash"]
                  ELSE [helper EXCEPT !.pc = "exit", !.code = 1]
    /\ UninstallFrame

TrySend2Trash ==
    /\ helper.pc = "send2trash"
    /\ \E ok \in BOOLEAN :
        helper' = IF ok
                  THEN [helper EXCEPT !.tried = @ \cup {"send2trash"},
                                      !.moved = TRUE, !.where = "trash",
                                      !.pc = "complete"]
                  ELSE [helper EXCEPT !.tried = @ \cup {"send2trash"},
                                      !.pc = "platform"]
    /\ UninstallFrame

PlatformTrash ==
    /\ helper.pc = "platform"
    /\ \E ok \in BOOLEAN :
        helper' = IF ok
                  THEN [helper EXCEPT
                            !.tried = @ \cup {platform_trash(helper.platform)},
                            !.moved = TRUE, !.where = "trash",
                            !.pc = "complete"]
                  ELSE [helper EXCEPT
                            !.tried = @ \cup {platform_trash(helper.platform)},
                            !.renaming = TRUE, !.pc = "pick"]
    /\ UninstallFrame

\* safe_rename: one test of "while new.exists() and i < 50"
PickName ==
    /\ helper.pc = "pick"
    /\ \E new \in Siblings :
        helper' = IF new # "absent" /\ helper.i < MaxCollisions
                  THEN [helper EXCEPT !.i = @ + 1, !.new = new]
                  ELSE [helper EXCEPT !.new = new, !.pc = "rename"]
    /\ UninstallFrame

\* safe_rename: path.rename(new), and the lines after the call
Rename ==
    /\ helper.pc = "rename"
    /\ \E refused \in BOOLEAN :
        helper' = IF rename_raises(helper.platform, helper.new, refused)
                  THEN [helper EXCEPT !.pc = "exit", !.code = 1]
                  ELSE [helper EXCEPT !.where = "renamed",
                                      !.new_existed = (helper.new # "absent"),
                                      !.pc = "complete"]
    /\ UninstallFrame

Complete ==
    /\ helper.pc = "complete"
    /\ helper' = [helper EXCEPT !.pc = "exit", !.code = 0]
    /\ UninstallFrame

UninstallNext ==
    \/ CheckSafePath
    \/ Confirm
    \/ TrySend2Trash
    \/ PlatformTrash
    \/ PickName
    \/ Rename
    \/ Complete

UninstallSpec == UninstallInit /\ [][UninstallNext]_vars

(***************************************************************************)
(* SetupFrame.install_pip_for_selected and SetupFrame._pump.  The GUI      *)
(* thread runs install_pip_for_selected and then _pump, which reschedules  *)
(* itself with after(50); the reader thread starts pip, assigns self.proc  *)
(* and queues the lines pip writes.  A thread switch can fall between any  *)
(* two reads or writes of self.proc.                                       *)
(***************************************************************************)
MaxLines == 2

InstallInit ==
    /\ setup \in [gui : {"click"}, job : {FALSE}, reader : {"none"},
                   proc : {"None", "Popen"}, child : {"none"},
                   btn : {"normal"}, q : {0}, shown : {0},
                   lines : 0..MaxLines, req_exists : BOOLEAN,
                   exit_logged : {"no"}]
    /\ calc = NoCalc
    /\ helper = NoHelper
    /\ NoCrawl

InstallFrame ==
    UNCHANGED <<pc, start_url, depth0, approved_netloc, visited, seen_hashes,
                stack, dirExists, files, log, failed, extracted, summary, last,
                calc, helper>>

\* install_pip_for_selected, up to the call of _pump
InstallPip ==
    /\ setup.gui = "click"
    /\ setup' = IF setup.proc # "None" \/ ~setup.req_exists
                 THEN [setup EXCEPT !.gui = "idle"]
                 ELSE [setup EXCEPT !.btn = "disabled", !.reader = "popen",
                                    !.gui = "pump_drain"]
    /\ InstallFrame

\* _pump: the loop over self.q.get_nowait()
PumpDrain ==
    /\ setup.gui = "pump_drain"
    /\ setup' = [setup EXCEPT !.shown = @ + setup.q, !.q = 0,
                              !.gui = "pump_check"]
    /\ InstallFrame

\* _pump: "if self.proc and self.proc.poll() is None"
PumpCheck ==
    /\ setup.gui = "pump_check"
    /\ setup' = IF setup.proc = "Popen" /\ setup.child = "running"
                 THEN [setup EXCEPT !.job = TRUE, !.gui = "idle"]
                 ELSE [setup EXCEPT !.gui = "pump_else"]
    /\ InstallFrame

\* _pump: "if self.proc:" and the line it logs
PumpLogExit ==
    /\ setup.gui = "pump_else"
    /\ setup' = IF setup.proc = "Popen"
                 THEN [setup EXCEPT
                          !.exit_logged = IF setup.child = "exited" THEN "code"
                                          ELSE "None",
                          !.gui = "pump_enable"]
                 ELSE [setup EXCEPT !.gui = "pump_enable"]
    /\ InstallFrame

\* _pump: self.install_os_btn.config(state="normal")
PumpEnable ==
    /\ setup.gui = "pump_enable"
    /\ setup' = [setup EXCEPT !.btn = "normal", !.gui = "pump_reset"]
    /\ InstallFrame

\* _pump: self.proc = None; self._pump_job = None
PumpReset ==
    /\ setup.gui = "pump_reset"
    /\ setup' = [setup EXCEPT !.proc = "None", !.job = FALSE, !.gui = "idle"]
    /\ InstallFrame

\* the callback of after(50, self._pump)
PumpAgain ==
    /\ setup.gui = "idle" /\ setup.job
    /\ setup' = [setup EXCEPT !.gui = "pump_drain"]
    /\ InstallFrame

\* reader: self.proc = subprocess.Popen(...), or Popen raises
ReaderPopen ==
    /\ setup.gui # "none" /\ setup.reader = "popen"
    /\ \E raises \in BOOLEAN :
        setup' = IF raises
                 THEN [setup EXCEPT !.q = @ + 1, !.reader = "done"]
                 ELSE [setup EXCEPT !.proc = "Popen", !.child = "running",
                                    !.reader = "reading"]
    /\ InstallFrame

\* reader: "for line in self.proc.stdout: self.q.put(line)"
ReaderLine ==
    /\ setup.gui # "none" /\ setup.reader = "reading" /\ setup.lines > 0
    /\ setup' = [setup EXCEPT !.lines = @ - 1, !.q = @ + 1]
    /\ InstallFrame

\* reader: the loop ends at the end of pip's output
ReaderEnd ==
    /\ setup.gui # "none" /\ setup.reader = "reading" /\ setup.lines = 0
    /\ setup.child = "exited"
    /\ setup' = [setup EXCEPT !.reader = "done"]
    /\ InstallFrame

\* pip exits
PipExits ==
    /\ setup.gui # "none" /\ setup.child = "running"
    /\ setup' = [setup EXCEPT !.child = "exited"]
    /\ InstallFrame

InstallNext ==
    \/ InstallPip
    \/ PumpDrain
    \/ PumpCheck
    \/ PumpLogExit
    \/ PumpEnable
    \/ PumpReset
    \/ PumpAgain
    \/ ReaderPopen
    \/ ReaderLine
    \/ ReaderEnd
    \/ PipExits

InstallSpec == InstallInit /\ [][InstallNext]_vars

(***************************************************************************)
(* The claims                                                              *)
(***************************************************************************)
IsRequest(e) == e.ev \in {"fetch", "download", "redirect"}

Requests(l) == SelectSeq(l, IsRequest)

\* Nothing more can happen: main has returned or the process has died
Stopped == ~ENABLED Next

\* C1: within one run fetch is called at most once for any URL string,
\* whatever link paths lead to the URL and whether its fetch raised or not.
C1_FetchAtMostOnce ==
    \A i, j \in 1..Len(log) :
        (i # j /\ log[i].ev = "fetch" /\ log[j].ev = "fetch")
            => log[i].url # log[j].url

\* crawl has been called a second time for a URL whose fetch had raised
C1_Witness ==
    /\ last.op = "entry" /\ last.res = "visited"
    /\ last.url \in failed
    /\ \E i \in 1..Len(log) : log[i] = Event("fetch", last.url)

\* C2: every request of a run (the GET of a page, the GET of an image, and
\* the GETs that follow their redirects) goes to a URL in scope for the
\* approved host.
C2_RequestsInScope ==
    \A i \in 1..Len(log) :
        IsRequest(log[i]) => stay_on_site(log[i].url, approved_netloc)

\* C3: a run with a valid start URL ends at main's final summary, each
\* activation of crawl has the depth of its caller less one, and each
\* activation past the visited check has its URL in visited.
C3_CrawlTerminates ==
    /\ \A i \in 2..Len(stack) : stack[i].depth = stack[i - 1].depth - 1
    /\ \A i \in 1..Len(stack) : stack[i].pc # "entry" => stack[i].url \in visited
    /\ (~invalid_start(start_url) /\ Stopped) => pc = "done"

\* C4: the links extracted from a page never contain the target of an anchor
\* that is a trap (rel nofollow, style display:none or visibility:hidden,
\* aria-hidden true).
C4_NoTrapLinks ==
    \A i \in 1..Len(stack) :
        stack[i].pc \in {"images", "links"} =>
            \A a \in stack[i].soup.anchors :
                (is_trap_link(a) /\ ~urljoin_raises(a.href)) =>
                    ~InSeq(url_cleanup(stack[i].url, a.href), stack[i].links)

\* C5: when fetch returns a page whose content hash (over the first 10000
\* characters of its text) is in seen_hashes, crawl returns at once: nothing
\* is extracted, no image is requested, no activation is added, and
\* seen_hashes, the directory and the files are unchanged.
C5_DuplicateReturns ==
    [][(/\ last'.op = "fetch"
        /\ ~fetch_raises(last'.r)
        /\ content_hash(last'.r.page.text) \in seen_hashes)
       => /\ last'.res = "duplicate"
          /\ stack' = Pop
          /\ pc' = pc
          /\ seen_hashes' = seen_hashes
          /\ dirExists' = dirExists /\ files' = files
          /\ log' = log \o <<Event("fetch", Top.url)>>
                        \o Events("redirect", last'.r.hops)]_vars

\* /b, whose text differs from the start page's after the first 10000
\* characters only, has been found a duplicate
C5_Witness ==
    /\ last.op = "fetch" /\ last.res = "duplicate"
    /\ last.url.path = <<"b">>
    /\ last.r.page.text # PageAt(Root).text
    /\ "home" \in seen_hashes

\* C6: a page whose fetch raised is never extracted, and a run in which a
\* fetch raised still ends at main's final summary.
C6_FetchErrorIsLocal ==
    /\ \A i \in 1..Len(stack) :
          stack[i].url \in failed => stack[i].pc \notin {"images", "links"}
    /\ (failed # {} /\ Stopped) => pc = "done"

\* C7: a reference that cannot be resolved never ends the run: main is never
\* left by an exception.
C7_MalformedNeverTerminates == pc # "crashed"

\* C8: when download_image ends in an error, crawl goes on: the image was the
\* next one of the sorted list, and the activation moves to the next image
\* or, after the last image, to the page's links; nothing else changes.
C8_DownloadErrorIsLocal ==
    [][(last'.op = "download" /\ last'.res = "error")
       => /\ pc' = pc
          /\ last'.url = Top.images[Top.idx]
          /\ Len(stack') = Len(stack)
          /\ stack' = SetTop(IF Top.idx < Len(Top.images)
                             THEN [Top EXCEPT !.idx = Top.idx + 1]
                             ELSE [Top EXCEPT !.pc = "links", !.idx = 1])
          /\ visited' = visited /\ seen_hashes' = seen_hashes]_vars

\* a write failed after the file was opened, and another image is still to
\* be downloaded
C8_Witness ==
    /\ last.op = "download" /\ last.res = "error"
    /\ \E f \in files : f.data = <<last.url, "partial">>
    /\ stack # <<>> /\ Top.pc = "images" /\ Top.idx = 2

\* C9: with a start URL whose scheme is not http or https, or that has no
\* host, main never calls crawl: no request, nothing visited, nothing hashed.
C9_InvalidStartAborts ==
    (start_url.scheme \notin {"http", "https"} \/ start_url.netloc = <<>>)
        => /\ pc \in {"start", "exit2"}
           /\ stack = <<>>
           /\ log = <<>>
           /\ visited = {} /\ seen_hashes = {}
           /\ (Stopped => pc = "exit2")

\* main has returned 2 for an https URL with no host
C9_Witness ==
    /\ pc = "exit2"
    /\ start_url.scheme = "https" /\ start_url.netloc = <<>>

\* C10: download_image for an image URL out of scope returns the
\* skipped-external outcome: no request, no directory created, no file
\* created or changed.
C10_ExternalImageSkipped ==
    [][(last'.op = "download" /\ ~stay_on_site(last'.url, approved_netloc))
       => /\ last'.res = "skipped_external"
          /\ Requests(log') = Requests(log)
          /\ dirExists' = dirExists
          /\ files' = files]_vars

\* an image of another host was skipped, and the directory still is not there
C10_Witness ==
    /\ last.op = "download" /\ last.res = "skipped_external"
    /\ ~stay_on_site(last.url, approved_netloc)
    /\ ~dirExists

\* The response carries an image: download_image gets as far as its file
ImageArrived(r) ==
    /\ r.kind = "resp" /\ ~raise_for_status(r)
    /\ r.ctype # <<>> /\ Lower(r.ctype[1]) = "image/"

\* C11 as stated: whenever the file of an image in scope exists, the outcome
\* is skipped-exists and the files are unchanged.
C11_ExistsAlwaysSkipped ==
    [][(/\ last'.op = "download"
        /\ stay_on_site(last'.url, approved_netloc)
        /\ \E f \in files : f.name = safe_image_filename(last'.url))
       => (last'.res = "skipped_exists" /\ files' = files)]_vars

\* C11, amended: download_image never overwrites: whenever the file exists
\* the files are unchanged and the outcome is not saved; it is skipped-exists
\* whenever the request returned an image.
C11_NeverOverwrites ==
    [][(/\ last'.op = "download"
        /\ \E f \in files : f.name = safe_image_filename(last'.url))
       => /\ files' = files
          /\ last'.res # "saved"
          /\ (stay_on_site(last'.url, approved_netloc) /\ ImageArrived(last'.r))
                => last'.res = "skipped_exists"]_vars

\* the image saved earlier in this run from the same URL is found existing
C11_Witness ==
    /\ last.op = "download" /\ last.res = "skipped_exists"
    /\ [name |-> safe_image_filename(last.url), data |-> <<last.url, "whole">>]
           \in files
    /\ \E i, j \in 1..Len(log) :
          i < j /\ log[i] = Event("download", last.url) /\ log[j] = log[i]

\* The URLs fetch was called for
Fetched == {log[i].url : i \in {j \in 1..Len(log) : log[j].ev = "fetch"}}

FetchCount(u) == Cardinality({i \in 1..Len(log) : log[i] = Event("fetch", u)})

\* Every fetch of the run returned a page that was extracted: no fetch
\* raised and no page was a duplicate of another
AllFetchesExtracted == Fetched = {e.url : e \in extracted}

\* C12: when a depth-1 run with no fetch error and no duplicate content is
\* done, the pages fetched are the start URL and the in-scope links of the
\* start page, each fetched once; no off-host link was fetched, no link found
\* only on a page reached with depth 0 was fetched, and the summary counts
\* the pages fetched.
C12_DepthOneRun ==
    (pc = "done" /\ depth0 = 1 /\ AllFetchesExtracted) =>
        /\ \E e \in extracted :
              /\ e.url = start_url
              /\ Fetched = {start_url}
                    \cup {l \in e.links : stay_on_site(l, approved_netloc)}
              /\ \A l \in e.links :
                    ~stay_on_site(l, approved_netloc) => l \notin Fetched
              /\ \A f \in extracted : \A l \in f.links :
                    (f.depth = 0 /\ l \notin e.links /\ l # start_url)
                        => l \notin Fetched
        /\ \A u \in Fetched : FetchCount(u) = 1
        /\ summary = Cardinality(Fetched)

\* a depth-1 run from /s is done: /s, /d and /t were fetched, the off-host
\* link of /s and the link of /d were not
C12_Witness ==
    /\ pc = "done" /\ depth0 = 1 /\ AllFetchesExtracted
    /\ summary = Cardinality(Fetched) /\ Cardinality(Fetched) >= 3
    /\ \E e \in extracted :
          /\ e.url = start_url
          /\ \E l \in e.links : ~stay_on_site(l, approved_netloc)
    /\ \E f \in extracted : f.depth = 0 /\ f.links # {}

\* host[:port] of a netloc: the netloc without its userinfo
HostPort(netloc) ==
    IF netloc # <<>> /\ netloc[1] = "user@" THEN Tail(netloc) ELSE netloc

\* lowercased, one leading "www." removed
NormalHost(h) ==
    LET l == [i \in 1..Len(h) |-> Lower(h[i])]
    IN  IF l # <<>> /\ l[1] = "www." THEN SubSeq(l, 2, Len(l)) ELSE l

\* C13: stay_on_site(url, approved) is true exactly when the scheme of url is
\* http or https and the host[:port] of url equals approved, both lowercased
\* and with one leading "www." removed.
C13_InScopeIffSameHost ==
    calc.fn = "stay_on_site" =>
        (calc.out <=> /\ calc.url.scheme \in {"http", "https"}
                      /\ NormalHost(HostPort(calc.url.netloc))
                            = NormalHost(calc.approved))

\* C14: url_cleanup applied to its own result returns that result.
C14_CleanupIdempotent ==
    calc.fn = "url_cleanup_again" => calc.again = calc.out

C14_Witness ==
    /\ calc.fn = "url_cleanup_again"
    /\ calc.again = calc.out
    /\ calc.link.u.frag # ""
    /\ calc.out.query # <<>>
    /\ calc.out.query # calc.link.u.query
    /\ \E i \in 1..Len(calc.link.u.query) :
            calc.link.u.query[i][1][1] = "%75tm_"
    /\ \E i \in 1..Len(calc.link.u.query) : calc.link.u.query[i][2] = "%20"

\* the parameters of a query, decoded, blank values included
Decoded(query) ==
    [i \in 1..Len(query) |->
        <<[j \in 1..Len(query[i][1]) |-> unquote(query[i][1][j])],
          unquote(query[i][2])>>]

TrackingParam(kv) == \E pref \in TRACKING_PREFIXES : Lower(kv[1][1]) = pref
NotTracking(kv) == ~TrackingParam(kv)
KeptParam(kv) == ~TrackingParam(kv) /\ kv[2] # ""

\* C15 as stated: the query of url_cleanup's result holds exactly the
\* parameters of the link's query whose lowercased key starts with no
\* tracking prefix, in their order.
C15_ExactlyNonTracking ==
    calc.fn = "url_cleanup" =>
        Decoded(calc.out.query)
            = SelectSeq(Decoded(calc.link.u.query), NotTracking)

\* C15, amended: the query of url_cleanup's result holds exactly the
\* parameters of the link's query that have a non-blank value and whose
\* lowercased key starts with no tracking prefix, in their order.
C15_NonTrackingNonBlank ==
    calc.fn = "url_cleanup" =>
        Decoded(calc.out.query)
            = SelectSeq(Decoded(calc.link.u.query), KeptParam)

C15_Witness ==
    /\ calc.fn = "url_cleanup"
    /\ Len(calc.link.u.query) = 3
    /\ Len(calc.out.query) = 2
    /\ calc.link.u.query[1][1] = <<"UTM_", "source">>
    /\ calc.out.query[1][1] = <<"s">> /\ calc.out.query[2][1] = <<"id">>

\* the canonical form of a URL: url_cleanup of the URL itself
Canonical(u) == url_cleanup(u, AbsRef(u))

\* C16: every element of visited is a fixpoint of url_cleanup, the start URL
\* included, and no two fetches of a run target URLs with the same canonical
\* form.
C16_VisitedCanonical ==
    /\ \A u \in visited : Canonical(u) = u
    /\ \A i, j \in 1..Len(log) :
            (/\ i < j
             /\ log[i].ev = "fetch" /\ log[j].ev = "fetch")
                => Canonical(log[i].url) # Canonical(log[j].url)

OffHost(r) ==
    /\ r.kind = "resp" /\ r.hops # <<>>
    /\ ~stay_on_site(r.hops[Len(r.hops)], approved_netloc)

\* C17: when the fetch of a URL in scope is answered from off the approved
\* host after a redirect, the response is neither hashed nor extracted.
C17_OffHostResponseDropped ==
    (/\ last.op = "fetch"
     /\ stay_on_site(last.url, approved_netloc)
     /\ OffHost(last.r))
        => /\ last.res \notin {"duplicate", "extracted", "raised"}
           /\ \A e \in extracted : e.url # last.url

Is2xx(r) == r.kind = "resp" /\ r.status >= 200 /\ r.status <= 299
Is4xx5xx(r) == r.kind = "resp" /\ r.status >= 400 /\ r.status <= 599
Hashed(res) == res \in {"duplicate", "extracted", "raised"}

\* C19 as stated: fetch fails for every response whose status is not 2xx,
\* and a page is hashed and extracted only if its status is 2xx.
C19_Non2xxFails ==
    (last.op = "fetch" /\ last.r.kind = "resp")
        => /\ ~Is2xx(last.r) => last.res = "error"
           /\ Hashed(last.res) => Is2xx(last.r)

\* C19, amended: fetch fails for every response whose status is 4xx or 5xx,
\* and a page is hashed and extracted only if its status is not 4xx or 5xx.
C19_ErrorStatusFails ==
    (last.op = "fetch" /\ last.r.kind = "resp")
        => /\ Is4xx5xx(last.r) => (last.res = "error" /\ last.url \in failed)
           /\ Hashed(last.res) => ~Is4xx5xx(last.r)

C19_Witness ==
    /\ last.op = "fetch" /\ last.res = "error"
    /\ last.r.kind = "resp" /\ last.r.status = 404
    /\ last.r.ctype = <<"text/html">>
    /\ last.url \in failed
    /\ \A e \in extracted : e.url # last.url

TargetSafe ==
    /\ helper.target.exists /\ helper.target.is_dir
    /\ ~helper.target.is_root /\ ~helper.target.is_home
    /\ helper.target.length >= 8
    /\ helper.target.main_py /\ helper.target.readme

\* C18: the uninstall helper leaves the target in the Trash, or renamed to
\* a name <name>.DELETE_ME_<ts>[_i] that did not exist before, or untouched
\* with exit code 1; it renames only after every trash method failed, and
\* moves or renames nothing unless safe_path(target) holds.
C18_ThreeEndStates ==
    /\ helper.pc = "exit" =>
            \/ helper.where = "trash"
            \/ helper.where = "renamed" /\ ~helper.new_existed
            \/ helper.where = "in_place" /\ helper.code = 1
    /\ helper.renaming =>
            /\ ~helper.moved
            /\ helper.tried = {"send2trash", platform_trash(helper.platform)}
    /\ (helper.tried # {} \/ helper.renaming) => TargetSafe

\* the stages of one visit, in order: "entry" is the depth check, the visited
\* check, the marking and the scope check; "fetch" is the fetch, the hash
\* check and the extraction; then the image downloads; then the links
StageOrder ==
    {<<"entry", "fetch">>, <<"fetch", "images">>, <<"fetch", "links">>,
     <<"images", "images">>, <<"images", "links">>, <<"links", "links">>}

VisitContinues ==
    /\ Len(stack') = Len(stack) /\ stack # <<>>
    /\ <<Top.pc, stack'[Len(stack)].pc>> \in StageOrder
    /\ Top.pc = "entry" =>
            /\ Top.depth >= 0 /\ Top.url \notin visited
            /\ Top.url \in visited'
            /\ stay_on_site(Top.url, approved_netloc)
    /\ Top.pc = "fetch" =>
            /\ last'.res = "extracted"
            /\ content_hash(last'.r.page.text) \in seen_hashes' \ seen_hashes

VisitRecurses ==
    /\ Len(stack') = Len(stack) + 1 /\ stack # <<>>
    /\ Top.pc = "links" /\ stack'[Len(stack)].pc = "links"
    /\ stack'[Len(stack')].pc = "entry"

VisitExits ==
    /\ Len(stack') = Len(stack) - 1 /\ stack # <<>>
    /\ stack' = SubSeq(stack, 1, Len(stack) - 1)
    /\ \/ Top.pc = "entry" /\ last'.res = "depth" /\ Top.depth < 0
          /\ visited' = visited
       \/ Top.pc = "entry" /\ last'.res = "visited" /\ Top.url \in visited
          /\ visited' = visited
       \/ Top.pc = "entry" /\ last'.res = "external"
          /\ Top.url \in visited' \ visited
          /\ ~stay_on_site(Top.url, approved_netloc)
       \/ Top.pc = "fetch" /\ last'.res = "error"
       \/ Top.pc = "fetch" /\ last'.res = "duplicate"
       \/ Top.pc = "links" /\ last'.op = "return"
    /\ Top.pc \in {"entry", "fetch"} =>
            /\ log' \in {log, Append(log, Event("fetch", Top.url))}
            /\ extracted' = extracted /\ files' = files

\* C20: every visit passes through its stages in the one order, none skipped:
\* visited check, mark visited, scope check, fetch, hash check, extraction,
\* image downloads, recursion into the links; it ends early only at the
\* depth check, the visited check, the scope check, a fetch error or a
\* duplicate page, and then none of its later stages happens.
C20_StagesInOrder ==
    [][pc = "running" =>
          \/ VisitContinues
          \/ VisitRecurses
          \/ VisitExits
          \/ stack = <<>> /\ stack' = <<>>]_vars

\* what a step appended to the log
Appended == SubSeq(log', Len(log) + 1, Len(log'))

Pauses(evs) == {i \in 1..Len(evs) : evs[i].ev \in {"sleep_jitter", "sleep_page"}}

\* C21: for a page with n extracted images crawl makes n download attempts
\* in ascending order of the URL, with a randomized pause before every
\* attempt but the first and nowhere else.
C21_DownloadsInOrder ==
    [][(pc = "running" /\ stack # <<>> /\ Top.pc \in {"fetch", "images"}
        /\ Len(stack') = Len(stack))
       => LET f == Top
              g == stack'[Len(stack)]
              n == Len(g.images)
          IN  /\ f.pc = "fetch" =>
                    /\ Pauses(Appended) = {}
                    /\ g.idx = 1
                    /\ g.pc = (IF n = 0 THEN "links" ELSE "images")
                    /\ \A i, j \in 1..n :
                          i < j => StrLess(UrlStr(g.images[i]), UrlStr(g.images[j]))
                    /\ \E e \in extracted' :
                          /\ e.url = f.url
                          /\ e.images = {g.images[i] : i \in 1..n}
              /\ f.pc = "images" =>
                    /\ g.images = f.images
                    /\ last'.op = "download" /\ last'.url = f.images[f.idx]
                    /\ Pauses(Appended) = (IF f.idx = 1 THEN {} ELSE {1})
                    /\ f.idx > 1 => Appended[1] = Event("sleep_jitter", f.images[f.idx])
                    /\ IF f.idx = n THEN g.pc = "links"
                       ELSE g.pc = "images" /\ g.idx = f.idx + 1]_vars

C21_Witness ==
    /\ pc = "running" /\ stack # <<>> /\ Top.pc = "links"
    /\ last.op = "download" /\ Len(Top.images) = 3
    /\ last.url = Top.images[3]
    /\ Cardinality({k \in 1..Len(log) : log[k].ev = "sleep_jitter"}) = 2
    /\ \E i \in 1..Len(log) - 2 :
          /\ log[i] = Event("download", Top.images[1])
          /\ log[i + 1] = Event("sleep_jitter", Top.images[2])
          /\ log[i + 2] = Event("download", Top.images[2])

\* C22: with depth > 0 the links of a page are handled in ascending order;
\* a link in scope gets one fixed pause and is then crawled with depth - 1,
\* a link out of scope is reported as skipped, with no pause, no recursion
\* and no addition to visited; the links come after all image downloads.
C22_LinksInOrder ==
    [][(pc = "running" /\ stack # <<>> /\ pc' = "running")
       => LET f == Top
              g == stack'[Len(stack)]
              n == Len(f.links)
          IN  /\ (f.pc = "images" /\ g.pc = "links") => f.idx = Len(f.images)
              /\ (f.pc = "fetch" /\ Len(stack') = Len(stack)) =>
                    /\ g.pc = "links" <=> g.images = <<>>
                    /\ \A i, j \in 1..Len(g.links) :
                          i < j => StrLess(UrlStr(g.links[i]), UrlStr(g.links[j]))
                    /\ \E e \in extracted' :
                          /\ e.url = f.url
                          /\ e.links = {g.links[i] : i \in 1..Len(g.links)}
              /\ Len(stack') > Len(stack) => f.pc = "links"
              /\ f.pc = "links" =>
                    IF f.depth > 0 /\ f.idx <= n
                    THEN /\ g = [f EXCEPT !.idx = f.idx + 1]
                         /\ visited' = visited
                         /\ IF stay_on_site(f.links[f.idx], approved_netloc)
                            THEN /\ Appended = <<Event("sleep_page", f.links[f.idx])>>
                                 /\ stack' = Append(SubSeq(stack', 1, Len(stack)),
                                                    Frame(f.links[f.idx], f.depth - 1))
                            ELSE /\ Appended = <<>>
                                 /\ Len(stack') = Len(stack)
                                 /\ last' = Did("link", f.links[f.idx], "skip_external")
                    ELSE /\ stack' = SubSeq(stack, 1, Len(stack) - 1)
                         /\ Appended = <<>>]_vars

C22_Witness ==
    /\ pc = "running" /\ stack # <<>> /\ Top.pc = "links"
    /\ last.op = "link" /\ last.res = "skip_external"
    /\ Len(Top.links) >= 4 /\ Top.idx = Len(Top.links) + 1
    /\ last.url = Top.links[Len(Top.links)]
    /\ last.url \notin visited
    /\ Top.images # <<>>
    /\ \A i \in 1..Len(Top.links) - 1 :
          \E k \in 1..Len(log) : log[k] = Event("sleep_page", Top.links[i])

\* the requests of a run sent to the approved host
ToApprovedHost(i) ==
    /\ log[i].ev \in {"fetch", "download", "redirect"}
    /\ stay_on_site(log[i].url, approved_netloc)

IsPause(e) == e.ev \in {"sleep_jitter", "sleep_page"}

\* the last request to the approved host before entry j of the log l, or 0
PreviousRequest(l, j) ==
    LET before == {i \in 1..(j - 1) :
                      /\ l[i].ev \in {"fetch", "download", "redirect"}
                      /\ stay_on_site(l[i].url, approved_netloc)}
    IN  IF before = {} THEN 0
        ELSE CHOOSE i \in before : \A h \in before : h <= i

FetchSucceeded(r) ==
    /\ r.kind = "resp"
    /\ ~(r.status >= 400 /\ r.status < 600)
    /\ \E i \in 1..Len(r.ctype) :
          Lower(r.ctype[i]) \in {"text/html", "application/xhtml+xml"}

\* C24: visited and seen_hashes only grow, and a hash is added only by a
\* visit whose fetch succeeded and whose hash was not there yet.
C24_LedgersAppendOnly ==
    [][/\ visited \subseteq visited'
       /\ seen_hashes \subseteq seen_hashes'
       /\ seen_hashes' # seen_hashes =>
              /\ last'.op = "fetch" /\ FetchSucceeded(last'.r)
              /\ last'.url \in visited
              /\ last'.r.page.text.head \notin seen_hashes
              /\ seen_hashes' = seen_hashes \cup {last'.r.page.text.head}]_vars

C24_Witness ==
    /\ last.op = "fetch" /\ last.res = "extracted"
    /\ last.r.page.text.head \in seen_hashes
    /\ Cardinality(seen_hashes) >= 3
    /\ Cardinality(visited) >= 4
    /\ failed # {}

\* the URLs within k extracted links in scope of the start URL
RECURSIVE WithinLinks(_)
WithinLinks(k) ==
    IF k = 0 THEN {start_url}
    ELSE LET near == WithinLinks(k - 1)
         IN  near \cup {l \in UNION {e.links : e \in {x \in extracted : x.url \in near}} :
                            stay_on_site(l, approved_netloc)}

\* C25: crawl with depth < 0 fetches nothing and marks nothing; with an
\* initial depth d >= 0 every activation of crawl has a depth in 0..d, the
\* activations nest at most d + 1 deep, and every fetched URL is within d
\* extracted links in scope of the start URL.
C25_DepthBound ==
    /\ depth0 < 0 => (visited = {} /\ log = <<>>)
    /\ depth0 >= 0 =>
          /\ Len(stack) <= depth0 + 1
          /\ \A k \in 1..Len(stack) : stack[k].depth = depth0 - (k - 1)
          /\ \A k \in 1..Len(stack) :
                stack[k].depth = 0 =>
                    (k = Len(stack) /\ (stack[k].pc = "links" => stack[k].idx = 1))
          /\ \A i \in 1..Len(log) :
                log[i].ev = "fetch" => log[i].url \in WithinLinks(depth0)

C25_Witness ==
    /\ depth0 = 2 /\ Len(stack) = 3
    /\ Top.depth = 0 /\ Top.pc = "links" /\ Top.links # <<>>
    /\ last.op = "fetch" /\ last.res = "extracted"
    /\ Top.url \notin WithinLinks(1)

\* _pump is running or scheduled
Pumping == setup.job \/ setup.gui \in {"pump_drain", "pump_check"}

\* C26: while the pip process runs the Install button is disabled and _pump
\* goes on rescheduling itself; the button is enabled again and the exit
\* code logged only after the process has exited.
C26_ButtonDisabledWhilePipRuns ==
    /\ setup.child = "running" => (setup.btn = "disabled" /\ Pumping)
    /\ setup.reader = "popen" => setup.btn = "disabled"
    /\ setup.exit_logged # "no" => setup.child = "exited"

FetchAttempts == {i \in 1..Len(log) : log[i].ev = "fetch"}

\* C27: in a run started by main the out-of-scope exit of crawl is never
\* taken: the start URL and every URL crawl is called with are in scope, so
\* is every member of visited, and the count of the last line, len(visited),
\* is the number of fetch attempts.
C27_NoExternalExit ==
    /\ ~(last.op = "entry" /\ last.res = "external")
    /\ pc \in {"running", "done", "crashed"} =>
            stay_on_site(start_url, approved_netloc)
    /\ \A k \in 1..Len(stack) : stay_on_site(stack[k].url, approved_netloc)
    /\ \A u \in visited : stay_on_site(u, approved_netloc)
    /\ pc = "done" => summary = Cardinality(FetchAttempts)

C27_Witness ==
    /\ pc = "done" /\ summary = Cardinality(FetchAttempts)
    /\ summary >= 4
    /\ failed # {}
    /\ \E i \in FetchAttempts :
          /\ log[i].url \notin failed
          /\ \A e \in extracted : e.url # log[i].url
    /\ \E e \in extracted :
          \E l \in e.links : ~stay_on_site(l, approved_netloc)

\* C28: in a run with no fetch error and no duplicate content every URL in
\* scope within depth extracted links of the start URL is fetched.
C28_DepthBoundedComplete ==
    (/\ pc = "done" /\ depth0 >= 0
     /\ failed = {} /\ AllFetchesExtracted)
        => \A u \in WithinLinks(depth0) : u \in Fetched

\* the files this run created: their data is the URL and how much was written
WrittenInRun(fls) == {f \in fls : Len(f.data) = 2}

\* C29: a download that fails after the file was opened for writing leaves
\* no file behind, so no later download finds a file that was never
\* completely written.
C29_FailedDownloadLeavesNoFile ==
    /\ \A f \in WrittenInRun(files) : f.data[2] # "partial"
    /\ (last.op = "download" /\ last.res = "error") =>
            \A f \in WrittenInRun(files) : f.data[1] # last.url

BaseName(u) == u.path[Len(u.path)]

SameNameElsewhere(u, fls) ==
    \E f \in WrittenInRun(fls) :
                    /\ f.data[1] # u
                    /\ BaseName(f.data[1]) = BaseName(u)
                    /\ BaseName(u) \in {"logo.png", "b.png", "t.png", "pic.png"}

====
